---- MODULE Spec2Model ----
(***************************************************************************)
(* The adapter interpreter of src/instructions/interpreter.rs: an          *)
(* instruction sequence is compiled once into executable instructions and  *)
(* run as a stack machine against invocation inputs and a wasm instance.   *)
(***************************************************************************)
EXTENDS Integers, Sequences, FiniteSets, TLC

\* ------------------------------------------------------------------ bounds

\* Longest instruction sequence handed to the compiler.
MaxProgram == 3

\* Longest invocation-input vector handed to run.
MaxInputs == 2

\* usize is 64 bits wide in the build; TLC's integers are 32 bits wide, so
\* the machine word is modelled 30 bits wide.  Every i32 the model converts
\* is far below 2^29 in magnitude, so sign extension (a negative i32 becomes a
\* word just below the modulus) and the wrap of pointer + length keep the
\* shape they have with 64 bits.
UsizeModulus == 2 ^ 30

\* ------------------------------------------------------- values and types

I32(n) == [type |-> "I32", int |-> n, bytes |-> <<>>]

I64(n) == [type |-> "I64", int |-> n, bytes |-> <<>>]

StringValue(b) == [type |-> "String", int |-> 0, bytes |-> b]

\* impl From<&InterfaceValue> for InterfaceType: the tag, no failure.
InterfaceTypeOf(v) == v.type

\* i32::try_from(&InterfaceValue): the payload when the tag is I32.
TryFromI32(v) ==
    IF v.type = "I32" THEN [ok |-> TRUE, n |-> v.int] ELSE [ok |-> FALSE, n |-> 0]

\* `value as usize` on an i32: sign extension, then reinterpretation.
AsUsize(n) == IF n < 0 THEN UsizeModulus + n ELSE n

\* The values the callers and exports put on the stack.
Values == {I32(-1), I32(0), I32(2), I64(2)}

\* ------------------------------------------------------------------ stack

\* Stack::push: the top is the last element.
Push(s, v) == Append(s, v)

\* Stack::pop(n): all or nothing; the first item returned is the top.
Pop(s, n) ==
    IF Len(s) < n
    THEN [some |-> FALSE, items |-> <<>>, rest |-> s]
    ELSE [some |-> TRUE,
          items |-> [i \in 1..n |-> s[Len(s) + 1 - i]],
          rest |-> SubSeq(s, 1, Len(s) - n)]

\* ----------------------------------------------------------- instructions

ArgumentGet(i) == [op |-> "ArgumentGet", index |-> i, name |-> ""]

CallExport(n) == [op |-> "CallExport", index |-> 0, name |-> n]

ReadUtf8 == [op |-> "ReadUtf8", index |-> 0, name |-> ""]

Call(i) == [op |-> "Call", index |-> i, name |-> ""]

\* Any variant of Instruction that try_from has no arm for.
WriteUtf8 == [op |-> "WriteUtf8", index |-> 0, name |-> ""]

SupportedOps == {"ArgumentGet", "CallExport", "ReadUtf8", "Call"}

\* let instruction_name: String = instruction.into()
Mnemonic(instruction) ==
    CASE instruction.op = "ArgumentGet" ->
             [text |-> "arg.get", index |-> instruction.index, name |-> ""]
      [] instruction.op = "CallExport" ->
             [text |-> "call-export", index |-> 0, name |-> instruction.name]
      [] instruction.op = "ReadUtf8" ->
             [text |-> "read-utf8", index |-> 0, name |-> ""]
      [] OTHER -> [text |-> "call", index |-> instruction.index, name |-> ""]

NoMnemonic == [text |-> "", index |-> 0, name |-> ""]

Instructions ==
    {ArgumentGet(0), ArgumentGet(1), CallExport("sum"), ReadUtf8, Call(7), WriteUtf8}

\* ----------------------------------------------------------------- errors

Error(kind, mnemonic, name, nums, types) ==
    [kind |-> kind, mnemonic |-> mnemonic, name |-> name, nums |-> nums, types |-> types]

NoError == Error("None", NoMnemonic, "", <<>>, <<>>)

\* ------------------------------------------------------- exports, memory

Export(inputs, outputs, function) ==
    [inputs |-> inputs, outputs |-> outputs, function |-> function]

\* Export::inputs_cardinality
InputsCardinality(export) == Len(export.inputs)

\* Export::call: what the export's function returns for these arguments.
ExportCall(export, arguments) ==
    CASE export.function = "sum" ->
             [ok |-> TRUE, outputs |-> <<I32(arguments[1].int + arguments[2].int)>>]
      [] export.function = "fail" -> [ok |-> FALSE, outputs |-> <<>>]
      [] export.function = "void" -> [ok |-> TRUE, outputs |-> <<>>]
      [] export.function = "swap" ->
             [ok |-> TRUE, outputs |-> <<arguments[2], arguments[1]>>]
      [] OTHER -> [ok |-> TRUE, outputs |-> arguments]

NoExports == [n \in {} |-> Export(<<>>, <<>>, "void")]

ExportTables ==
    {NoExports}
    \cup {[n \in {"sum"} |-> Export(<<"I32", "I32">>, <<"I32">>, f)] :
              f \in {"sum", "fail", "void"}}
    \cup {[n \in {"sum"} |-> Export(<<"I32", "I64">>, <<"I64">>, "swap")],
          [n \in {"sum"} |-> Export(<<"I64">>, <<"I64">>, "identity")],
          [n \in {"sum"} |-> Export(<<"I32">>, <<"I32">>, "identity")]}

SumExports == [n \in {"sum"} |-> Export(<<"I32", "I32">>, <<"I32">>, "sum")]

MemoryOf(data) == [present |-> TRUE, data |-> data]

NoMemory == [present |-> FALSE, data |-> <<>>]

Hi == <<72, 105>>

Memories == {NoMemory, MemoryOf(<<>>), MemoryOf(Hi), MemoryOf(<<65, 65, 65, 159>>)}

Instance(exports, memory) == [exports |-> exports, memory |-> memory]

Instances ==
    {Instance(e, MemoryOf(Hi)) : e \in ExportTables}
    \cup {Instance(SumExports, m) : m \in Memories}

NoInstance == Instance(NoExports, NoMemory)

\* ------------------------------------------------------------------ UTF-8

Continuation(b) == b >= 128 /\ b <= 191

\* Width of the well-formed sequence that starts at bytes[i]; 0 when there
\* is none (std's run_utf8_validation).
Utf8Width(bytes, i) ==
    LET b == bytes[i]
        at(k) == IF i + k <= Len(bytes) THEN bytes[i + k] ELSE -1
    IN  IF b < 128 THEN 1
        ELSE IF b >= 194 /\ b <= 223
        THEN IF Continuation(at(1)) THEN 2 ELSE 0
        ELSE IF b >= 224 /\ b <= 239
        THEN IF /\ Continuation(at(1))
                /\ (b = 224 => at(1) >= 160)
                /\ (b = 237 => at(1) <= 159)
                /\ Continuation(at(2))
             THEN 3 ELSE 0
        ELSE IF b >= 240 /\ b <= 244
        THEN IF /\ Continuation(at(1))
                /\ (b = 240 => at(1) >= 144)
                /\ (b = 244 => at(1) <= 143)
                /\ Continuation(at(2))
                /\ Continuation(at(3))
             THEN 4 ELSE 0
        ELSE 0

RECURSIVE Utf8ValidFrom(_, _)
\* Utf8Error::valid_up_to, counted from bytes[1]: Len(bytes) when all is valid.
Utf8ValidFrom(bytes, i) ==
    IF i > Len(bytes) THEN Len(bytes)
    ELSE IF Utf8Width(bytes, i) = 0 THEN i - 1
    ELSE Utf8ValidFrom(bytes, i + Utf8Width(bytes, i))

\* String::from_utf8(data)
FromUtf8(data) ==
    LET upto == Utf8ValidFrom(data, 1)
    IN  IF upto = Len(data)
        THEN [ok |-> TRUE, string |-> StringValue(data), valid_up_to |-> upto]
        ELSE [ok |-> FALSE, string |-> StringValue(<<>>), valid_up_to |-> upto]

\* ------------------------------------------------ executable instructions

\* What one executable instruction does to the runtime: Ok(()), Err(message)
\* or a panic; the stack it leaves in the runtime; the export calls it made,
\* the memory cells it read and the memory lookups it made.
Outcome(res, stack, error, called, read, looked) ==
    [res |-> res, stack |-> stack, error |-> error,
     called |-> called, read |-> read, looked |-> looked]

Runtime(invocation_inputs, stack, wasm_instance) ==
    [invocation_inputs |-> invocation_inputs, stack |-> stack,
     wasm_instance |-> wasm_instance]

\* The closure try_from boxes for one instruction, with the operands and the
\* instruction name it captures.
Executable(instruction) ==
    [step |-> instruction.op, index |-> instruction.index,
     export_name |-> instruction.name, instruction_name |-> Mnemonic(instruction)]

\* Mutant of ExecArgumentGet: the range check is `index > len`, so the index
\* just past the end reaches the indexing, which panics.
ExecArgumentGetOffByOne(x, rt) ==
    IF x.index > Len(rt.invocation_inputs)
    THEN {Outcome("Err", rt.stack,
                  Error("OutOfRangeArgument", x.instruction_name, "", <<x.index>>, <<>>),
                  <<>>, {}, 0)}
    ELSE IF x.index = Len(rt.invocation_inputs)
    THEN {Outcome("Panic", rt.stack, NoError, <<>>, {}, 0)}
    ELSE {Outcome("Ok", Push(rt.stack, rt.invocation_inputs[x.index + 1]), NoError,
                  <<>>, {}, 0)}

\* The ArgumentGet closure.
ExecArgumentGet(x, rt) ==
    IF x.index >= Len(rt.invocation_inputs)
    THEN {Outcome("Err", rt.stack,
                  Error("OutOfRangeArgument", x.instruction_name, "", <<x.index>>, <<>>),
                  <<>>, {}, 0)}
    ELSE {Outcome("Ok", Push(rt.stack, rt.invocation_inputs[x.index + 1]), NoError,
                  <<>>, {}, 0)}

\* Mutant of SignatureMismatch: only the number of values is compared.
SignatureMismatchCountOnly(input_types, expected) == Len(input_types) # Len(expected)

\* input_types != export.inputs()
SignatureMismatch(input_types, expected) == input_types # expected

\* Mutant of ExecCallExport: the export is called before the types are
\* compared.
ExecCallExportEager(x, rt) ==
    LET exports == rt.wasm_instance.exports
    IN  IF x.export_name \notin DOMAIN exports
        THEN {Outcome("Err", rt.stack,
                      Error("ExportNotFound", x.instruction_name, x.export_name, <<>>, <<>>),
                      <<>>, {}, 0)}
        ELSE
        LET export == exports[x.export_name]
            inputs_cardinality == InputsCardinality(export)
            popped == Pop(rt.stack, inputs_cardinality)
            inputs == popped.items
            input_types == [i \in 1..Len(inputs) |-> InterfaceTypeOf(inputs[i])]
            returned == ExportCall(export, inputs)
            call == [name |-> x.export_name, arguments |-> inputs,
                     ok |-> returned.ok, outputs |-> returned.outputs]
        IN  IF ~popped.some
            THEN {Outcome("Err", rt.stack,
                          Error("StackUnderflow", x.instruction_name, x.export_name,
                                <<inputs_cardinality>>, <<>>),
                          <<>>, {}, 0)}
            ELSE IF SignatureMismatch(input_types, export.inputs)
            THEN {Outcome("Err", popped.rest,
                          Error("SignatureMismatch", x.instruction_name, x.export_name,
                                <<>>, export.inputs),
                          <<call>>, {}, 0)}
            ELSE IF ~returned.ok
            THEN {Outcome("Err", popped.rest,
                          Error("ExportCallFailed", x.instruction_name, x.export_name,
                                <<>>, <<>>),
                          <<call>>, {}, 0)}
            ELSE {Outcome("Ok", popped.rest \o returned.outputs, NoError, <<call>>, {}, 0)}

\* Mutant of ExecCallExport: the values are taken off the stack one at a
\* time, so a stack that is too small is emptied before the step fails.
ExecCallExportDraining(x, rt) ==
    LET exports == rt.wasm_instance.exports
    IN  IF x.export_name \notin DOMAIN exports
        THEN {Outcome("Err", rt.stack,
                      Error("ExportNotFound", x.instruction_name, x.export_name, <<>>, <<>>),
                      <<>>, {}, 0)}
        ELSE
        LET export == exports[x.export_name]
            inputs_cardinality == InputsCardinality(export)
            popped == Pop(rt.stack, inputs_cardinality)
            inputs == popped.items
            input_types == [i \in 1..Len(inputs) |-> InterfaceTypeOf(inputs[i])]
            returned == ExportCall(export, inputs)
            call == [name |-> x.export_name, arguments |-> inputs,
                     ok |-> returned.ok, outputs |-> returned.outputs]
        IN  IF ~popped.some
            THEN {Outcome("Err", <<>>,
                          Error("StackUnderflow", x.instruction_name, x.export_name,
                                <<inputs_cardinality>>, <<>>),
                          <<>>, {}, 0)}
            ELSE IF SignatureMismatch(input_types, export.inputs)
            THEN {Outcome("Err", popped.rest,
                          Error("SignatureMismatch", x.instruction_name, x.export_name,
                                <<>>, export.inputs),
                          <<>>, {}, 0)}
            ELSE IF ~returned.ok
            THEN {Outcome("Err", popped.rest,
                          Error("ExportCallFailed", x.instruction_name, x.export_name,
                                <<>>, <<>>),
                          <<call>>, {}, 0)}
            ELSE {Outcome("Ok", popped.rest \o returned.outputs, NoError, <<call>>, {}, 0)}

\* Mutant of ExecCallExport: the returned values are pushed last one first.
ExecCallExportReversedOutputs(x, rt) ==
    LET exports == rt.wasm_instance.exports
    IN  IF x.export_name \notin DOMAIN exports
        THEN {Outcome("Err", rt.stack,
                      Error("ExportNotFound", x.instruction_name, x.export_name, <<>>, <<>>),
                      <<>>, {}, 0)}
        ELSE
        LET export == exports[x.export_name]
            inputs_cardinality == InputsCardinality(export)
            popped == Pop(rt.stack, inputs_cardinality)
            inputs == popped.items
            input_types == [i \in 1..Len(inputs) |-> InterfaceTypeOf(inputs[i])]
            returned == ExportCall(export, inputs)
            outputs == returned.outputs
            call == [name |-> x.export_name, arguments |-> inputs,
                     ok |-> returned.ok, outputs |-> outputs]
        IN  IF ~popped.some
            THEN {Outcome("Err", rt.stack,
                          Error("StackUnderflow", x.instruction_name, x.export_name,
                                <<inputs_cardinality>>, <<>>),
                          <<>>, {}, 0)}
            ELSE IF SignatureMismatch(input_types, export.inputs)
            THEN {Outcome("Err", popped.rest,
                          Error("SignatureMismatch", x.instruction_name, x.export_name,
                                <<>>, export.inputs),
                          <<>>, {}, 0)}
            ELSE IF ~returned.ok
            THEN {Outcome("Err", popped.rest,
                          Error("ExportCallFailed", x.instruction_name, x.export_name,
                                <<>>, <<>>),
                          <<call>>, {}, 0)}
            ELSE {Outcome("Ok",
                          popped.rest
                              \o [i \in 1..Len(outputs) |-> outputs[Len(outputs) + 1 - i]],
                          NoError, <<call>>, {}, 0)}

\* Mutant of ExecCallExport: the arguments are read from the stack and left
\* on it.
ExecCallExportKeepingInputs(x, rt) ==
    LET exports == rt.wasm_instance.exports
    IN  IF x.export_name \notin DOMAIN exports
        THEN {Outcome("Err", rt.stack,
                      Error("ExportNotFound", x.instruction_name, x.export_name, <<>>, <<>>),
                      <<>>, {}, 0)}
        ELSE
        LET export == exports[x.export_name]
            inputs_cardinality == InputsCardinality(export)
            popped == Pop(rt.stack, inputs_cardinality)
            inputs == popped.items
            input_types == [i \in 1..Len(inputs) |-> InterfaceTypeOf(inputs[i])]
            returned == ExportCall(export, inputs)
            call == [name |-> x.export_name, arguments |-> inputs,
                     ok |-> returned.ok, outputs |-> returned.outputs]
        IN  IF ~popped.some
            THEN {Outcome("Err", rt.stack,
                          Error("StackUnderflow", x.instruction_name, x.export_name,
                                <<inputs_cardinality>>, <<>>),
                          <<>>, {}, 0)}
            ELSE IF SignatureMismatch(input_types, export.inputs)
            THEN {Outcome("Err", popped.rest,
                          Error("SignatureMismatch", x.instruction_name, x.export_name,
                                <<>>, export.inputs),
                          <<>>, {}, 0)}
            ELSE IF ~returned.ok
            THEN {Outcome("Err", popped.rest,
                          Error("ExportCallFailed", x.instruction_name, x.export_name,
                                <<>>, <<>>),
                          <<call>>, {}, 0)}
            ELSE {Outcome("Ok", rt.stack \o returned.outputs, NoError, <<call>>, {}, 0)}

\* Mutant of ExecCallExport: an error returned by the call is dropped
\* (Err(_) => Ok(())).
ExecCallExportIgnoringCallFailure(x, rt) ==
    LET exports == rt.wasm_instance.exports
    IN  IF x.export_name \notin DOMAIN exports
        THEN {Outcome("Err", rt.stack,
                      Error("ExportNotFound", x.instruction_name, x.export_name, <<>>, <<>>),
                      <<>>, {}, 0)}
        ELSE
        LET export == exports[x.export_name]
            inputs_cardinality == InputsCardinality(export)
            popped == Pop(rt.stack, inputs_cardinality)
            inputs == popped.items
            input_types == [i \in 1..Len(inputs) |-> InterfaceTypeOf(inputs[i])]
            returned == ExportCall(export, inputs)
            call == [name |-> x.export_name, arguments |-> inputs,
                     ok |-> returned.ok, outputs |-> returned.outputs]
        IN  IF ~popped.some
            THEN {Outcome("Err", rt.stack,
                          Error("StackUnderflow", x.instruction_name, x.export_name,
                                <<inputs_cardinality>>, <<>>),
                          <<>>, {}, 0)}
            ELSE IF SignatureMismatch(input_types, export.inputs)
            THEN {Outcome("Err", popped.rest,
                          Error("SignatureMismatch", x.instruction_name, x.export_name,
                                <<>>, export.inputs),
                          <<>>, {}, 0)}
            ELSE IF ~returned.ok
            THEN {Outcome("Ok", popped.rest, NoError, <<call>>, {}, 0)}
            ELSE {Outcome("Ok", popped.rest \o returned.outputs, NoError, <<call>>, {}, 0)}

\* The CallExport closure.
ExecCallExport(x, rt) ==
    LET exports == rt.wasm_instance.exports
    IN  IF x.export_name \notin DOMAIN exports
        THEN {Outcome("Err", rt.stack,
                      Error("ExportNotFound", x.instruction_name, x.export_name, <<>>, <<>>),
                      <<>>, {}, 0)}
        ELSE
        LET export == exports[x.export_name]
            inputs_cardinality == InputsCardinality(export)
            popped == Pop(rt.stack, inputs_cardinality)
            inputs == popped.items
            input_types == [i \in 1..Len(inputs) |-> InterfaceTypeOf(inputs[i])]
            returned == ExportCall(export, inputs)
            call == [name |-> x.export_name, arguments |-> inputs,
                     ok |-> returned.ok, outputs |-> returned.outputs]
        IN  IF ~popped.some
            THEN {Outcome("Err", rt.stack,
                          Error("StackUnderflow", x.instruction_name, x.export_name,
                                <<inputs_cardinality>>, <<>>),
                          <<>>, {}, 0)}
            ELSE IF SignatureMismatch(input_types, export.inputs)
            THEN {Outcome("Err", popped.rest,
                          Error("SignatureMismatch", x.instruction_name, x.export_name,
                                <<>>, export.inputs),
                          <<>>, {}, 0)}
            ELSE IF ~returned.ok
            THEN {Outcome("Err", popped.rest,
                          Error("ExportCallFailed", x.instruction_name, x.export_name,
                                <<>>, <<>>),
                          <<call>>, {}, 0)}
            ELSE {Outcome("Ok", popped.rest \o returned.outputs, NoError, <<call>>, {}, 0)}

\* Mutant of ReadString: the offset of the invalid byte is reported as a
\* memory address.
ReadStringAbsoluteOffset(x, rest, view, pointer, length) ==
    LET sum == pointer + length
        end == sum % UsizeModulus
        data == SubSeq(view, pointer + 1, end)
        cells == {a \in 0..(Len(view) - 1) : pointer <= a /\ a < end}
        decoded == FromUtf8(data)
        checked ==
            IF Len(view) < end
            THEN Outcome("Err", rest,
                         Error("OutOfBoundsMemoryAccess", x.instruction_name, "",
                               <<end, Len(view)>>, <<>>),
                         <<>>, {}, 1)
            ELSE IF pointer > end
            THEN Outcome("Panic", rest, NoError, <<>>, {}, 1)
            ELSE IF decoded.ok
            THEN Outcome("Ok", Push(rest, decoded.string), NoError, <<>>, cells, 1)
            ELSE Outcome("Err", rest,
                         Error("InvalidUtf8", x.instruction_name, "",
                               <<pointer + decoded.valid_up_to>>, <<>>),
                         <<>>, cells, 1)
    IN  IF sum >= UsizeModulus
        THEN {Outcome("Panic", rest, NoError, <<>>, {}, 1), checked}
        ELSE {checked}

\* The ReadUtf8 closure from the bounds check on: pointer and length are
\* machine words.  pointer + length that does not fit the word panics in a
\* build with overflow checks and wraps in one without; a slice whose start
\* is beyond its end panics.
ReadString(x, rest, view, pointer, length) ==
    LET sum == pointer + length
        end == sum % UsizeModulus
        data == SubSeq(view, pointer + 1, end)
        cells == {a \in 0..(Len(view) - 1) : pointer <= a /\ a < end}
        decoded == FromUtf8(data)
        checked ==
            IF Len(view) < end
            THEN Outcome("Err", rest,
                         Error("OutOfBoundsMemoryAccess", x.instruction_name, "",
                               <<end, Len(view)>>, <<>>),
                         <<>>, {}, 1)
            ELSE IF pointer > end
            THEN Outcome("Panic", rest, NoError, <<>>, {}, 1)
            ELSE IF decoded.ok
            THEN Outcome("Ok", Push(rest, decoded.string), NoError, <<>>, cells, 1)
            ELSE Outcome("Err", rest,
                         Error("InvalidUtf8", x.instruction_name, "",
                               <<decoded.valid_up_to>>, <<>>),
                         <<>>, cells, 1)
    IN  IF sum >= UsizeModulus
        THEN {Outcome("Panic", rest, NoError, <<>>, {}, 1), checked}
        ELSE {checked}

\* Mutant of ExecReadUtf8: the top of the stack is taken as the pointer and
\* the value below it as the length.
ExecReadUtf8Swapped(x, rt) ==
    LET popped == Pop(rt.stack, 2)
        memory == rt.wasm_instance.memory
        length == TryFromI32(popped.items[2])
        pointer == TryFromI32(popped.items[1])
    IN  IF ~popped.some
        THEN {Outcome("Err", rt.stack,
                      Error("StackUnderflow", x.instruction_name, "", <<2>>, <<>>),
                      <<>>, {}, 0)}
        ELSE IF ~memory.present
        THEN {Outcome("Err", popped.rest,
                      Error("NoMemory", x.instruction_name, "", <<>>, <<>>),
                      <<>>, {}, 1)}
        ELSE IF ~length.ok \/ ~pointer.ok
        THEN {Outcome("Err", popped.rest,
                      Error("ConversionError", NoMnemonic, "", <<>>, <<"I32">>),
                      <<>>, {}, 1)}
        ELSE ReadString(x, popped.rest, memory.data, AsUsize(pointer.n), AsUsize(length.n))

\* Mutant of ExecReadUtf8: the two values are converted before the memory is
\* looked up.
ExecReadUtf8ConvertFirst(x, rt) ==
    LET popped == Pop(rt.stack, 2)
        memory == rt.wasm_instance.memory
        length == TryFromI32(popped.items[1])
        pointer == TryFromI32(popped.items[2])
    IN  IF ~popped.some
        THEN {Outcome("Err", rt.stack,
                      Error("StackUnderflow", x.instruction_name, "", <<2>>, <<>>),
                      <<>>, {}, 0)}
        ELSE IF ~length.ok \/ ~pointer.ok
        THEN {Outcome("Err", popped.rest,
                      Error("ConversionError", NoMnemonic, "", <<>>, <<"I32">>),
                      <<>>, {}, 0)}
        ELSE IF ~memory.present
        THEN {Outcome("Err", popped.rest,
                      Error("NoMemory", x.instruction_name, "", <<>>, <<>>),
                      <<>>, {}, 1)}
        ELSE ReadString(x, popped.rest, memory.data, AsUsize(pointer.n), AsUsize(length.n))

\* Mutant of ExecReadUtf8: memory(0) is asked for before the two values are
\* popped.
ExecReadUtf8LookupFirst(x, rt) ==
    LET popped == Pop(rt.stack, 2)
        memory == rt.wasm_instance.memory
        length == TryFromI32(popped.items[1])
        pointer == TryFromI32(popped.items[2])
    IN  IF ~popped.some
        THEN {Outcome("Err", rt.stack,
                      Error("StackUnderflow", x.instruction_name, "", <<2>>, <<>>),
                      <<>>, {}, 1)}
        ELSE IF ~memory.present
        THEN {Outcome("Err", popped.rest,
                      Error("NoMemory", x.instruction_name, "", <<>>, <<>>),
                      <<>>, {}, 1)}
        ELSE IF ~length.ok \/ ~pointer.ok
        THEN {Outcome("Err", popped.rest,
                      Error("ConversionError", NoMnemonic, "", <<>>, <<"I32">>),
                      <<>>, {}, 1)}
        ELSE ReadString(x, popped.rest, memory.data, AsUsize(pointer.n), AsUsize(length.n))

\* The ReadUtf8 closure.
ExecReadUtf8(x, rt) ==
    LET popped == Pop(rt.stack, 2)
        memory == rt.wasm_instance.memory
        length == TryFromI32(popped.items[1])
        pointer == TryFromI32(popped.items[2])
    IN  IF ~popped.some
        THEN {Outcome("Err", rt.stack,
                      Error("StackUnderflow", x.instruction_name, "", <<2>>, <<>>),
                      <<>>, {}, 0)}
        ELSE IF ~memory.present
        THEN {Outcome("Err", popped.rest,
                      Error("NoMemory", x.instruction_name, "", <<>>, <<>>),
                      <<>>, {}, 1)}
        ELSE IF ~length.ok \/ ~pointer.ok
        THEN {Outcome("Err", popped.rest,
                      Error("ConversionError", NoMnemonic, "", <<>>, <<"I32">>),
                      <<>>, {}, 1)}
        ELSE ReadString(x, popped.rest, memory.data, AsUsize(pointer.n), AsUsize(length.n))

\* Mutant of ExecCall: the function index is left on the stack.
ExecCallPushingIndex(x, rt) ==
    {Outcome("Ok", Push(rt.stack, I32(x.index)), NoError, <<>>, {}, 0)}

\* The Call closure.
ExecCall(x, rt) == {Outcome("Ok", rt.stack, NoError, <<>>, {}, 0)}

\* executable_instruction(&mut runtime): the closure boxed for the opcode.
Exec(x, rt) ==
    CASE x.step = "ArgumentGet" -> ExecArgumentGet(x, rt)
      [] x.step = "CallExport" -> ExecCallExport(x, rt)
      [] x.step = "ReadUtf8" -> ExecReadUtf8(x, rt)
      [] OTHER -> ExecCall(x, rt)

\* ------------------------------------------------------------------ state

VARIABLES
    instructions,             \* the instruction sequence given to try_from
    executable_instructions,  \* Interpreter.executable_instructions
    phase,                    \* "new", "compiled", "running", "returned", "aborted"
    invocation_inputs,        \* Runtime.invocation_inputs
    wasm_instance,            \* Runtime.wasm_instance
    stack,                    \* Runtime.stack
    pc,                       \* position of run's loop in the program, from 1
    result,                   \* what run returned
    executed,                 \* the positions of the steps run executed, in order
    prev,                     \* stack, calls, reads and lookups before the last step
    calls,                    \* the export calls made, in order
    reads,                    \* the memory addresses read
    lookups,                  \* how many times memory(0) was asked for
    history,                  \* the earlier run calls on this Interpreter, in order
    other                     \* a second run call on this Interpreter, in progress

vars ==
    <<instructions, executable_instructions, phase, invocation_inputs, wasm_instance,
      stack, pc, result, executed, prev, calls, reads, lookups, history, other>>

RECURSIVE SeqsUpTo(_, _)
SeqsUpTo(S, n) ==
    IF n = 0 THEN {<<>>}
    ELSE SeqsUpTo(S, n - 1) \cup {Append(s, e) : s \in {t \in SeqsUpTo(S, n - 1) : Len(t) = n - 1}, e \in S}

NoPrev == [stack |-> <<>>, calls |-> 0, reads |-> {}, lookups |-> 0]

NoResult == [kind |-> "None", stack |-> <<>>, error |-> NoError]

\* No second run call: its Runtime does not exist.
NoOther ==
    [phase |-> "idle", invocation_inputs |-> <<>>, wasm_instance |-> NoInstance,
     stack |-> <<>>, pc |-> 1, result |-> NoResult]

Init ==
    /\ instructions \in SeqsUpTo(Instructions, MaxProgram)
    /\ executable_instructions = <<>>
    /\ phase = "new"
    /\ invocation_inputs = <<>>
    /\ wasm_instance = NoInstance
    /\ stack = <<>>
    /\ pc = 1
    /\ result = NoResult
    /\ executed = <<>>
    /\ prev = NoPrev
    /\ calls = <<>>
    /\ reads = {}
    /\ lookups = 0
    /\ history = <<>>
    /\ other = NoOther

Unsupported(instruction) == instruction.op \notin SupportedOps

\* Mutant of Compile: the closures are collected in the opposite order.
CompileReversed ==
    /\ phase = "new"
    /\ \A i \in 1..Len(instructions) : ~Unsupported(instructions[i])
    /\ executable_instructions' =
           [i \in 1..Len(instructions) |->
               Executable(instructions[Len(instructions) + 1 - i])]
    /\ phase' = "compiled"
    /\ UNCHANGED <<instructions, invocation_inputs, wasm_instance, stack, pc, result,
                   executed, prev, calls, reads, lookups, history, other>>

\* try_from on a sequence of supported instructions: one closure each, in order.
Compile ==
    /\ phase = "new"
    /\ \A i \in 1..Len(instructions) : ~Unsupported(instructions[i])
    /\ executable_instructions' =
           [i \in 1..Len(instructions) |-> Executable(instructions[i])]
    /\ phase' = "compiled"
    /\ UNCHANGED <<instructions, invocation_inputs, wasm_instance, stack, pc, result,
                   executed, prev, calls, reads, lookups, history, other>>

\* try_from on a sequence with an instruction of the `_` arm: unimplemented!().
CompilePanic ==
    /\ phase = "new"
    /\ \E i \in 1..Len(instructions) : Unsupported(instructions[i])
    /\ phase' = "aborted"
    /\ UNCHANGED <<instructions, executable_instructions, invocation_inputs,
                   wasm_instance, stack, pc, result, executed, prev, calls,
                   reads, lookups, history, other>>

\* Mutant of StartRun: the Runtime is kept from the run before, stack and all.
StartRunKeepingStack(inputs, instance) ==
    /\ invocation_inputs' = inputs
    /\ wasm_instance' = instance
    /\ pc' = 1
    /\ phase' = "running"
    /\ result' = NoResult
    /\ executed' = <<>>
    /\ prev' = NoPrev
    /\ calls' = <<>>
    /\ reads' = {}
    /\ lookups' = 0
    /\ UNCHANGED <<instructions, executable_instructions, stack>>

\* Mutant of StartRun: the loop goes on from where the run before stopped.
StartRunKeepingProgress(inputs, instance) ==
    /\ invocation_inputs' = inputs
    /\ wasm_instance' = instance
    /\ stack' = <<>>
    /\ phase' = "running"
    /\ result' = NoResult
    /\ executed' = <<>>
    /\ prev' = NoPrev
    /\ calls' = <<>>
    /\ reads' = {}
    /\ lookups' = 0
    /\ UNCHANGED <<instructions, executable_instructions, pc>>

\* The head of run: a new Runtime made of the two arguments and Stack::new(),
\* and the loop at the first executable instruction.  Nothing is taken from
\* self but the executable instructions.
StartRun(inputs, instance) ==
    /\ invocation_inputs' = inputs
    /\ wasm_instance' = instance
    /\ stack' = <<>>
    /\ pc' = 1
    /\ phase' = "running"
    /\ result' = NoResult
    /\ executed' = <<>>
    /\ prev' = NoPrev
    /\ calls' = <<>>
    /\ reads' = {}
    /\ lookups' = 0
    /\ UNCHANGED <<instructions, executable_instructions>>

\* run is called: a fresh Runtime with an empty stack.
Run ==
    /\ phase = "compiled"
    /\ \E inputs \in SeqsUpTo(Values, MaxInputs), instance \in Instances :
          StartRun(inputs, instance)
    /\ UNCHANGED <<history, other>>

\* Mutant of Take: a failed step does not stop the loop (Err => continue).
TakeIgnoringFailure(o) ==
    /\ stack' = o.stack
    /\ prev' = [stack |-> stack, calls |-> Len(calls), reads |-> reads,
                 lookups |-> lookups]
    /\ executed' = Append(executed, pc)
    /\ calls' = calls \o o.called
    /\ reads' = reads \cup o.read
    /\ lookups' = lookups + o.looked
    /\ pc' = pc + 1
    /\ UNCHANGED <<phase, result>>
    /\ UNCHANGED <<instructions, executable_instructions, invocation_inputs,
                   wasm_instance, history, other>>

\* Mutant of Take: a step that read bytes of the memory leaves zeroes there.
TakeClearingMemory(o) ==
    /\ stack' = o.stack
    /\ prev' = [stack |-> stack, calls |-> Len(calls), reads |-> reads,
                 lookups |-> lookups]
    /\ executed' = Append(executed, pc)
    /\ calls' = calls \o o.called
    /\ reads' = reads \cup o.read
    /\ lookups' = lookups + o.looked
    /\ wasm_instance' =
          [wasm_instance EXCEPT !.memory.data =
              [a \in DOMAIN @ |-> IF a - 1 \in o.read THEN 0 ELSE @[a]]]
    /\ CASE o.res = "Ok" ->
                /\ pc' = pc + 1
                /\ UNCHANGED <<phase, result>>
         [] o.res = "Err" ->
                /\ phase' = "returned"
                /\ result' = [kind |-> "Err", stack |-> <<>>, error |-> o.error]
                /\ UNCHANGED pc
         [] OTHER ->
                /\ phase' = "aborted"
                /\ UNCHANGED <<pc, result>>
    /\ UNCHANGED <<instructions, executable_instructions, invocation_inputs,
                   history, other>>

\* Mutant of Take: after a step that succeeded the loop passes over the next.
TakeSkipping(o) ==
    /\ stack' = o.stack
    /\ prev' = [stack |-> stack, calls |-> Len(calls), reads |-> reads,
                 lookups |-> lookups]
    /\ executed' = Append(executed, pc)
    /\ calls' = calls \o o.called
    /\ reads' = reads \cup o.read
    /\ lookups' = lookups + o.looked
    /\ CASE o.res = "Ok" ->
                /\ pc' = pc + 2
                /\ UNCHANGED <<phase, result>>
         [] o.res = "Err" ->
                /\ phase' = "returned"
                /\ result' = [kind |-> "Err", stack |-> <<>>, error |-> o.error]
                /\ UNCHANGED pc
         [] OTHER ->
                /\ phase' = "aborted"
                /\ UNCHANGED <<pc, result>>
    /\ UNCHANGED <<instructions, executable_instructions, invocation_inputs,
                   wasm_instance, history, other>>

\* The loop of run takes the outcome of the step at pc.
Take(o) ==
    /\ stack' = o.stack
    /\ prev' = [stack |-> stack, calls |-> Len(calls), reads |-> reads,
                 lookups |-> lookups]
    /\ executed' = Append(executed, pc)
    /\ calls' = calls \o o.called
    /\ reads' = reads \cup o.read
    /\ lookups' = lookups + o.looked
    /\ CASE o.res = "Ok" ->
                /\ pc' = pc + 1
                /\ UNCHANGED <<phase, result>>
         [] o.res = "Err" ->
                /\ phase' = "returned"
                /\ result' = [kind |-> "Err", stack |-> <<>>, error |-> o.error]
                /\ UNCHANGED pc
         [] OTHER ->
                /\ phase' = "aborted"
                /\ UNCHANGED <<pc, result>>
    /\ UNCHANGED <<instructions, executable_instructions, invocation_inputs,
                   wasm_instance, history, other>>

AtStep(step) ==
    /\ phase = "running"
    /\ pc <= Len(executable_instructions)
    /\ executable_instructions[pc].step = step

CurrentRuntime == Runtime(invocation_inputs, stack, wasm_instance)

StepArgumentGet ==
    /\ AtStep("ArgumentGet")
    /\ \E o \in ExecArgumentGet(executable_instructions[pc], CurrentRuntime) : Take(o)

StepCallExport ==
    /\ AtStep("CallExport")
    /\ \E o \in ExecCallExport(executable_instructions[pc], CurrentRuntime) : Take(o)

StepReadUtf8 ==
    /\ AtStep("ReadUtf8")
    /\ \E o \in ExecReadUtf8(executable_instructions[pc], CurrentRuntime) : Take(o)

StepCall ==
    /\ AtStep("Call")
    /\ \E o \in ExecCall(executable_instructions[pc], CurrentRuntime) : Take(o)

\* Every step succeeded: Ok(runtime.stack).
ReturnOk ==
    /\ phase = "running"
    /\ pc > Len(executable_instructions)
    /\ phase' = "returned"
    /\ result' = [kind |-> "Ok", stack |-> stack, error |-> NoError]
    /\ UNCHANGED <<instructions, executable_instructions, invocation_inputs,
                   wasm_instance, stack, pc, executed, prev, calls, reads, lookups,
                   history, other>>

Next ==
    \/ Compile
    \/ CompilePanic
    \/ Run
    \/ StepArgumentGet
    \/ StepCallExport
    \/ StepReadUtf8
    \/ StepCall
    \/ ReturnOk

Spec == Init /\ [][Next]_vars

\* ------------------------------------------- run, called again and again

\* How many times run is called on one Interpreter.
MaxRuns == 2

\* The arguments of the run calls that are made again and again.
RerunInputs == {<<>>, <<I32(0), I32(2)>>, <<I32(2), I64(2)>>}

RerunInstances == {Instance(SumExports, MemoryOf(Hi)), Instance(NoExports, NoMemory)}

\* What a run call that has returned leaves to look at: its arguments, what
\* it returned, and the executable instructions it ran.
FinishedRun ==
    [inputs |-> invocation_inputs, instance |-> wasm_instance, result |-> result,
     program |-> executable_instructions]

\* The first run call on the Interpreter.
RunFirst ==
    /\ phase = "compiled"
    /\ \E inputs \in RerunInputs, instance \in RerunInstances :
          StartRun(inputs, instance)
    /\ UNCHANGED <<history, other>>

\* run is called on an Interpreter whose run has returned before, Ok or Err.
RunAgain ==
    /\ phase = "returned"
    /\ Len(history) + 1 < MaxRuns
    /\ history' = Append(history, FinishedRun)
    /\ \E inputs \in RerunInputs, instance \in RerunInstances :
          StartRun(inputs, instance)
    /\ UNCHANGED other

NextRerun ==
    \/ Compile
    \/ CompilePanic
    \/ RunFirst
    \/ RunAgain
    \/ StepArgumentGet
    \/ StepCallExport
    \/ StepReadUtf8
    \/ StepCall
    \/ ReturnOk

SpecRerun == Init /\ [][NextRerun]_vars

\* ------------------------------------- two run calls on one Interpreter

\* Mutant of OtherRuntime: the second run call works on the first one's stack.
OtherRuntimeSharingStack ==
    Runtime(other.invocation_inputs, stack, other.wasm_instance)

\* The Runtime of the second run call: a local of that call.
OtherRuntime ==
    Runtime(other.invocation_inputs, other.stack, other.wasm_instance)

\* run is called a second time on the compiled Interpreter (&self), while
\* the first call has not started, is in its loop, or has returned.
RunOther ==
    /\ phase \in {"compiled", "running", "returned"}
    /\ other.phase = "idle"
    /\ \E inputs \in RerunInputs, instance \in RerunInstances :
          other' = [phase |-> "running", invocation_inputs |-> inputs,
                    wasm_instance |-> instance, stack |-> <<>>, pc |-> 1,
                    result |-> NoResult]
    /\ UNCHANGED <<instructions, executable_instructions, phase, invocation_inputs,
                   wasm_instance, stack, pc, result, executed, prev, calls, reads,
                   lookups, history>>

\* The loop of the second run call executes its next executable instruction
\* on its own Runtime.
StepOther ==
    /\ other.phase = "running"
    /\ other.pc <= Len(executable_instructions)
    /\ \E o \in Exec(executable_instructions[other.pc], OtherRuntime) :
          other' = CASE o.res = "Ok" ->
                            [other EXCEPT !.stack = o.stack, !.pc = @ + 1]
                     [] o.res = "Err" ->
                            [other EXCEPT !.stack = o.stack,
                                          !.phase = "returned",
                                          !.result = [kind |-> "Err", stack |-> <<>>,
                                                      error |-> o.error]]
                     [] OTHER ->
                            [other EXCEPT !.phase = "aborted"]
    /\ UNCHANGED <<instructions, executable_instructions, phase, invocation_inputs,
                   wasm_instance, stack, pc, result, executed, prev, calls, reads,
                   lookups, history>>

\* Every step of the second run call succeeded: Ok(runtime.stack).
ReturnOkOther ==
    /\ other.phase = "running"
    /\ other.pc > Len(executable_instructions)
    /\ other' = [other EXCEPT !.phase = "returned",
                              !.result = [kind |-> "Ok", stack |-> other.stack,
                                          error |-> NoError]]
    /\ UNCHANGED <<instructions, executable_instructions, phase, invocation_inputs,
                   wasm_instance, stack, pc, result, executed, prev, calls, reads,
                   lookups, history>>

NextConc ==
    \/ Compile
    \/ CompilePanic
    \/ RunFirst
    \/ StepArgumentGet
    \/ StepCallExport
    \/ StepReadUtf8
    \/ StepCall
    \/ ReturnOk
    \/ RunOther
    \/ StepOther
    \/ ReturnOkOther

SpecConc == Init /\ [][NextConc]_vars

\* ------------------------------------------------ one run call, to its end

\* The body of run after the Runtime is made: the for loop and the final Ok.
Loop ==
    \/ StepArgumentGet
    \/ StepCallExport
    \/ StepReadUtf8
    \/ StepCall
    \/ ReturnOk

NextTerm ==
    \/ Compile
    \/ CompilePanic
    \/ RunFirst
    \/ StepArgumentGet
    \/ StepCallExport
    \/ StepReadUtf8
    \/ StepCall
    \/ ReturnOk

\* run is sequential code: once called, its loop goes on as long as it has
\* something to do (every closure returns; an export call returns).
SpecTerm == Init /\ [][NextTerm]_vars /\ WF_vars(Loop)

\* ------------------------------------------- programs of many Call steps

\* The instructions of the programs that call functions of several indexes.
CallInstructions == Instructions \cup {Call(0), Call(1)}

InitCall ==
    /\ instructions \in SeqsUpTo(CallInstructions, MaxProgram)
    /\ executable_instructions = <<>>
    /\ phase = "new"
    /\ invocation_inputs = <<>>
    /\ wasm_instance = NoInstance
    /\ stack = <<>>
    /\ pc = 1
    /\ result = NoResult
    /\ executed = <<>>
    /\ prev = NoPrev
    /\ calls = <<>>
    /\ reads = {}
    /\ lookups = 0
    /\ history = <<>>
    /\ other = NoOther

SpecCall == InitCall /\ [][NextTerm]_vars

\* ------------------------------------------------------ claims: helpers

\* The executable instruction run executed last, and how that step ended.
Stepped == executed # <<>>

LastStep == executable_instructions[executed[Len(executed)]]

LastIs(step) == Stepped /\ LastStep.step = step

StepSucceeded == Stepped /\ result.kind # "Err" /\ phase # "aborted"

StepFailed(kind) == Stepped /\ result.kind = "Err" /\ result.error.kind = kind

\* The k values on top of s, the top one first.
TopFirst(s, k) == [i \in 1..k |-> s[Len(s) + 1 - i]]

TypesOf(values) == [i \in 1..Len(values) |-> values[i].type]

RECURSIVE Results(_, _, _, _, _)
\* Reference semantics of a run from step i on: the final stack when every
\* step succeeds, else the error of the first step that fails.
Results(xs, i, s, inputs, instance) ==
    IF i > Len(xs)
    THEN {[kind |-> "Ok", stack |-> s, error |-> NoError]}
    ELSE UNION {
            IF o.res = "Ok" THEN Results(xs, i + 1, o.stack, inputs, instance)
            ELSE IF o.res = "Err"
            THEN {[kind |-> "Err", stack |-> <<>>, error |-> o.error]}
            ELSE {} :
            o \in Exec(xs[i], Runtime(inputs, s, instance))}

\* ------------------------------------------------------------------- C1

\* C1: run executes the steps in program order from the first one, stops at
\* the first step that fails and returns that step's error; it returns a
\* stack only when every step succeeded, the stack the last step left; a
\* failed run returns the error and no stack.
C1_RunInOrderToFirstFailure ==
    /\ executed = [i \in 1..Len(executed) |-> i]
    /\ Len(executed) <= Len(executable_instructions)
    /\ phase = "running" => pc = Len(executed) + 1
    /\ result.kind = "Ok" =>
          /\ Len(executed) = Len(executable_instructions)
          /\ result.stack = stack
    /\ result.kind = "Err" =>
          /\ pc = Len(executed)
          /\ result.stack = <<>>
    /\ phase = "returned" =>
          result \in Results(executable_instructions, 1, <<>>, invocation_inputs,
                             wasm_instance)

\* A run of a three-step program that failed at its second step.
C1_Witness ==
    /\ phase = "returned"
    /\ result.kind = "Err"
    /\ Len(executable_instructions) = 3
    /\ executed = <<1, 2>>

\* ------------------------------------------------------------------- C2

HasUnsupported == \E i \in 1..Len(instructions) : Unsupported(instructions[i])

\* C2: compiling a sequence that holds an opcode outside the supported subset
\* is a recoverable failure: it never aborts the process.
C2_UnsupportedOpcodeIsRecoverable == HasUnsupported => phase # "aborted"

\* ------------------------------------------------------------------- C3

\* C3: an ArgumentGet(i) step pushes a copy of invocation_inputs[i] on top
\* of the stack, the rest unchanged, when i is in range; otherwise it fails
\* with OutOfRangeArgument(i) and pushes nothing.  A program prefix made of
\* ArgumentGet steps leaves the values in push order, bottom to top.
C3_ArgumentGet ==
    /\ LastIs("ArgumentGet") =>
          IF LastStep.index < Len(invocation_inputs)
          THEN /\ StepSucceeded
               /\ stack = prev.stack \o <<invocation_inputs[LastStep.index + 1]>>
          ELSE /\ StepFailed("OutOfRangeArgument")
               /\ result.error.nums = <<LastStep.index>>
               /\ stack = prev.stack
    /\ (/\ StepSucceeded
        /\ \A j \in 1..Len(executed) : executable_instructions[j].step = "ArgumentGet")
       => stack = [j \in 1..Len(executed) |->
                      invocation_inputs[executable_instructions[j].index + 1]]

\* Two consecutive ArgumentGet steps pushed two different values.
C3_Witness ==
    /\ LastIs("ArgumentGet")
    /\ StepSucceeded
    /\ executed = <<1, 2>>
    /\ executable_instructions[1].step = "ArgumentGet"
    /\ stack[1] # stack[2]

\* -------------------------------------------------------------- C4 .. C7

\* The export a CallExport step that ran last looked up, when there is one.
LastExportFound == LastIs("CallExport") /\ LastStep.export_name \in DOMAIN wasm_instance.exports

LastExport == wasm_instance.exports[LastStep.export_name]

\* The last step made an export call.
LastStepCalled == Stepped /\ Len(calls) > prev.calls

\* The arity check of the last CallExport step passes on the stack it found.
ArityHolds == Len(prev.stack) >= Len(LastExport.inputs)

\* Some position of the popped types, top first, differs from export.inputs().
SomePositionDiffers ==
    \E i \in 1..Len(LastExport.inputs) :
        prev.stack[Len(prev.stack) + 1 - i].type # LastExport.inputs[i]

\* C4: a CallExport step whose arity check or type check fails does not call
\* the export; a step calls the export only when it is a CallExport step
\* whose export exists and both checks passed, and then exactly once.
C4_NoCallWhenCheckFails ==
    /\ (LastExportFound /\ (~ArityHolds \/ SomePositionDiffers)) => ~LastStepCalled
    /\ LastStepCalled =>
          /\ LastExportFound
          /\ ArityHolds
          /\ ~SomePositionDiffers
          /\ Len(calls) = prev.calls + 1
          /\ calls[Len(calls)].name = LastStep.export_name

\* A CallExport step rejected the types on the stack and nothing was called.
C4_Witness ==
    /\ LastExportFound
    /\ StepFailed("SignatureMismatch")
    /\ calls = <<>>

\* C5: a successful CallExport step on a stack of height h, with k the
\* export's input cardinality, leaves the lowest h - k values as they were
\* and puts on top of them the values the call returned, in the order
\* returned, however many they are.
C5_CallExportPushesOutputs ==
    (LastIs("CallExport") /\ StepSucceeded) =>
        /\ LastExportFound
        /\ LastStepCalled
        /\ LET h == Len(prev.stack)
               k == Len(LastExport.inputs)
               returned == calls[Len(calls)].outputs
           IN  /\ Len(stack) = h - k + Len(returned)
               /\ \A i \in 1..(h - k) : stack[i] = prev.stack[i]
               /\ \A i \in 1..Len(returned) : stack[h - k + i] = returned[i]

\* A successful call that returned two different values, one more than the
\* export declares.
C5_Witness ==
    /\ LastIs("CallExport")
    /\ StepSucceeded
    /\ Len(calls[Len(calls)].outputs) = 2
    /\ Len(LastExport.outputs) = 1
    /\ stack[Len(stack)] # stack[Len(stack) - 1]

\* C6: the export receives the popped values top first (argument 0 is the
\* value pushed last), and the step fails with SignatureMismatch(inputs())
\* exactly when some position of that top-first vector has another type than
\* the same position of export.inputs().
C6_TopFirstPositionalTypes ==
    /\ LastStepCalled =>
          calls[Len(calls)].arguments = TopFirst(prev.stack, Len(LastExport.inputs))
    /\ (LastExportFound /\ ArityHolds) =>
          /\ SomePositionDiffers <=> StepFailed("SignatureMismatch")
          /\ StepFailed("SignatureMismatch") => result.error.types = LastExport.inputs

\* The stack held the export's input types bottom to top, the opposite of
\* the order the export takes them in, and the step was rejected.
C6_Witness ==
    /\ LastExportFound
    /\ StepFailed("SignatureMismatch")
    /\ Len(prev.stack) = 2
    /\ TypesOf(prev.stack) = LastExport.inputs
    /\ LastExport.inputs[1] # LastExport.inputs[2]

\* C7: a CallExport step that finds fewer than k values on the stack fails
\* with StackUnderflow(k) and leaves the stack as it found it.
C7_UnderflowLeavesStack ==
    (LastExportFound /\ ~ArityHolds) =>
        /\ StepFailed("StackUnderflow")
        /\ result.error.nums = <<Len(LastExport.inputs)>>
        /\ stack = prev.stack

\* One value on the stack, two needed.
C7_Witness ==
    /\ LastExportFound
    /\ StepFailed("StackUnderflow")
    /\ Len(prev.stack) = 1
    /\ stack = prev.stack

\* ------------------------------------------------------------- C8 .. C10

\* The last step was a ReadUtf8 step that found two values to pop.
LastReadPopped == LastIs("ReadUtf8") /\ Len(prev.stack) >= 2

\* What that step popped: the top value and the one below it.
TopValue == prev.stack[Len(prev.stack)]

BelowTopValue == prev.stack[Len(prev.stack) - 1]

\* C8: a successful ReadUtf8 step pops two values, the top one the length
\* and the one below it the pointer, and pushes one String holding the bytes
\* of memory 0 at [pointer, pointer + length); the values below are
\* unchanged and the height drops by one.
C8_ReadUtf8Success ==
    (LastIs("ReadUtf8") /\ StepSucceeded) =>
        /\ LastReadPopped
        /\ wasm_instance.memory.present
        /\ TopValue.type = "I32"
        /\ BelowTopValue.type = "I32"
        /\ LET h == Len(prev.stack)
               length == TopValue.int
               pointer == BelowTopValue.int
               data == wasm_instance.memory.data
           IN  /\ Len(stack) = h - 1
               /\ \A i \in 1..(h - 2) : stack[i] = prev.stack[i]
               /\ pointer >= 0
               /\ length >= 0
               /\ pointer + length <= Len(data)
               /\ stack[h - 1].type = "String"
               /\ stack[h - 1].bytes = [i \in 1..length |-> data[pointer + i]]
               /\ reads = prev.reads \cup {a \in 0..(Len(data) - 1) :
                                              pointer <= a /\ a < pointer + length}

\* A read of two bytes from pointer 0: the length is on top.
C8_Witness ==
    /\ LastIs("ReadUtf8")
    /\ StepSucceeded
    /\ TopValue = I32(2)
    /\ BelowTopValue = I32(0)
    /\ stack[Len(stack)] = StringValue(Hi)

\* The pointer and the length of the last ReadUtf8 step as machine words.
PointerWord == AsUsize(BelowTopValue.int)

LengthWord == AsUsize(TopValue.int)

LastReadConverted ==
    /\ LastReadPopped
    /\ wasm_instance.memory.present
    /\ TopValue.type = "I32"
    /\ BelowTopValue.type = "I32"

\* C9: for every pointer, length and memory length the step fails with
\* OutOfBoundsMemoryAccess(pointer + length, memory length) exactly when
\* pointer + length exceeds the memory length, and then reads no cell; a
\* range that ends at the memory length is accepted.
C9_OutOfBoundsExactly ==
    LastReadConverted =>
        LET end == PointerWord + LengthWord
            len == Len(wasm_instance.memory.data)
        IN  /\ end > len <=>
                  /\ StepFailed("OutOfBoundsMemoryAccess")
                  /\ result.error.nums = <<end, len>>
            /\ StepFailed("OutOfBoundsMemoryAccess") => reads = prev.reads
            /\ end = len => (StepSucceeded \/ StepFailed("InvalidUtf8"))

\* C10 as stated: with two values on the stack of which one is no i32, the
\* step fails with ConversionError whatever the instance's memory is, also
\* when there is no memory 0.
C10_ConversionErrorWhateverMemory ==
    (LastReadPopped /\ (TopValue.type # "I32" \/ BelowTopValue.type # "I32")) =>
        StepFailed("ConversionError")

\* C10 amended: with two values on the stack of which one is no i32, the
\* step fails with ConversionError when the instance has a memory 0, and with
\* NoMemory when it has none; with no memory 0 the step fails with NoMemory
\* whatever the two values are.
C10_ConversionErrorAfterMemoryLookup ==
    /\ (LastReadPopped /\ (TopValue.type # "I32" \/ BelowTopValue.type # "I32")) =>
          IF wasm_instance.memory.present
          THEN StepFailed("ConversionError") /\ result.error.types = <<"I32">>
          ELSE StepFailed("NoMemory")
    /\ (LastReadPopped /\ ~wasm_instance.memory.present) => StepFailed("NoMemory")

\* The pointer below the top was no i32 and the instance has a memory.
C10_Witness ==
    /\ LastReadPopped
    /\ TopValue.type = "I32"
    /\ BelowTopValue.type # "I32"
    /\ wasm_instance.memory.present
    /\ StepFailed("ConversionError")

\* ------------------------------------------------------------ C11, C12

\* C11: a ReadUtf8 step that finds fewer than two values on the stack fails
\* with StackUnderflow(2) without asking for the memory or reading a cell of
\* it; a step whose bounds check fails reads no cell, so there are no bytes
\* to decode, and pushes nothing.
C11_NoMemoryAccessBeforeChecks ==
    /\ (LastIs("ReadUtf8") /\ Len(prev.stack) < 2) =>
          /\ StepFailed("StackUnderflow")
          /\ result.error.nums = <<2>>
          /\ lookups = prev.lookups
          /\ reads = prev.reads
          /\ stack = prev.stack
    /\ (LastIs("ReadUtf8") /\ StepFailed("OutOfBoundsMemoryAccess")) =>
          /\ reads = prev.reads
          /\ stack = SubSeq(prev.stack, 1, Len(prev.stack) - 2)

\* One value on the stack of an instance that has a memory: the step failed
\* and the memory was not asked for.
C11_Witness ==
    /\ LastIs("ReadUtf8")
    /\ Len(prev.stack) = 1
    /\ wasm_instance.memory.present
    /\ StepFailed("StackUnderflow")
    /\ lookups = 0

\* The bytes the last ReadUtf8 step had to decode.
LastReadBytes ==
    [i \in 1..TopValue.int |-> wasm_instance.memory.data[BelowTopValue.int + i]]

\* The last ReadUtf8 step got past the bounds check with a range in memory.
LastReadInRange ==
    /\ LastReadConverted
    /\ TopValue.int >= 0
    /\ BelowTopValue.int >= 0
    /\ BelowTopValue.int + TopValue.int <= Len(wasm_instance.memory.data)

WellFormedUtf8(bytes) == Utf8ValidFrom(bytes, 1) = Len(bytes)

\* The length of the longest prefix of bytes that is well-formed UTF-8.
LongestValidPrefix(bytes) ==
    CHOOSE n \in 0..Len(bytes) :
        /\ WellFormedUtf8(SubSeq(bytes, 1, n))
        /\ \A m \in (n + 1)..Len(bytes) : ~WellFormedUtf8(SubSeq(bytes, 1, m))

\* C12: when the bytes of the range are not valid UTF-8 the step fails with
\* InvalidUtf8(offset) and pushes nothing; offset is the position of the first
\* invalid byte counted from the start of the range (the length of the
\* longest valid prefix), not its memory address.
C12_InvalidUtf8Offset ==
    (LastReadInRange /\ ~WellFormedUtf8(LastReadBytes)) =>
        /\ StepFailed("InvalidUtf8")
        /\ result.error.nums = <<LongestValidPrefix(LastReadBytes)>>
        /\ stack = SubSeq(prev.stack, 1, Len(prev.stack) - 2)

\* A read from pointer 2 whose second byte is invalid: offset 1, address 3.
C12_Witness ==
    /\ LastReadInRange
    /\ BelowTopValue.int = 2
    /\ StepFailed("InvalidUtf8")
    /\ result.error.nums = <<1>>

\* ----------------------------------------------------------------- C14

\* try_from returned an Interpreter.
Compiled == phase \in {"compiled", "running", "returned"} \/ (phase = "aborted" /\ Stepped)

\* C14: compiling a sequence of supported opcodes only always succeeds, and
\* the program has one step per instruction, in the order of the
\* instructions, each with the opcode and the operands of its instruction.
C14_CompileTotalOrderPreserving ==
    (~HasUnsupported /\ phase # "new") =>
        /\ Compiled
        /\ Len(executable_instructions) = Len(instructions)
        /\ \A i \in 1..Len(instructions) :
              /\ executable_instructions[i].step = instructions[i].op
              /\ executable_instructions[i].index = instructions[i].index
              /\ executable_instructions[i].export_name = instructions[i].name

\* A compiled program of three steps, the first and the last different.
C14_Witness ==
    /\ phase = "compiled"
    /\ Len(executable_instructions) = 3
    /\ executable_instructions[1].step = "ArgumentGet"
    /\ executable_instructions[2].step = "CallExport"
    /\ executable_instructions[3].step = "ReadUtf8"

\* ----------------------------------------------------------------- C17

\* The last step called an export of one input and one output of the same
\* type that returns its argument, with a value of that type on top.
IdentityCase ==
    /\ LastExportFound
    /\ LastExport.function = "identity"
    /\ Len(LastExport.inputs) = 1
    /\ LastExport.outputs = LastExport.inputs
    /\ prev.stack # <<>>
    /\ TopValue.type = LastExport.inputs[1]

\* C17: a CallExport of an identity export of type T on a stack whose top
\* is a value v of type T succeeds and leaves the stack as it was, v on top.
C17_IdentityRoundTrip ==
    IdentityCase =>
        /\ StepSucceeded
        /\ stack = prev.stack
        /\ calls[Len(calls)].arguments = <<TopValue>>

\* ArgumentGet pushed v on a value already there; the identity call kept both.
C17_Witness ==
    /\ IdentityCase
    /\ StepSucceeded
    /\ executed = <<1, 2, 3>>
    /\ executable_instructions[2].step = "ArgumentGet"
    /\ Len(stack) = 2
    /\ stack[1] # stack[2]

\* ----------------------------------------------------------------- C18

\* C18: every error run returns carries the mnemonic of the instruction
\* whose step failed, with the cause of the failure.
C18_ErrorCarriesMnemonic ==
    (Stepped /\ result.kind = "Err") =>
        /\ result.error.kind # "None"
        /\ result.error.mnemonic = LastStep.instruction_name
        /\ result.error.mnemonic.text # ""

\* ----------------------------------------------------------------- C19

\* C19: a CallExport(name) step checks export lookup, arity, types and call
\* in that order and reports the first that fails: ExportNotFound(name)
\* whatever the stack holds, else StackUnderflow(k), else SignatureMismatch,
\* else ExportCallFailed(name) with nothing pushed; else it succeeds.
C19_CallExportCheckOrder ==
    LastIs("CallExport") =>
        IF ~LastExportFound
        THEN /\ StepFailed("ExportNotFound")
             /\ result.error.name = LastStep.export_name
             /\ stack = prev.stack
        ELSE IF ~ArityHolds
        THEN /\ StepFailed("StackUnderflow")
             /\ result.error.nums = <<Len(LastExport.inputs)>>
        ELSE IF SomePositionDiffers
        THEN StepFailed("SignatureMismatch")
        ELSE /\ LastStepCalled
             /\ IF calls[Len(calls)].ok
                THEN StepSucceeded
                ELSE /\ StepFailed("ExportCallFailed")
                     /\ result.error.name = LastStep.export_name
                     /\ stack = SubSeq(prev.stack, 1,
                                       Len(prev.stack) - Len(LastExport.inputs))

\* The export's call returned an error.
C19_Witness ==
    /\ LastExportFound
    /\ StepFailed("ExportCallFailed")
    /\ Len(calls) = 1
    /\ stack = <<>>

\* ----------------------------------------------------------------- C20

\* C20: for every i32 pointer and length, negative ones included, a ReadUtf8
\* step fails with OutOfBoundsMemoryAccess or reads only cells inside the
\* memory; pointer + length never wraps so as to pass the bounds check, and
\* the run is never aborted.
C20_NoWrapNoAbort ==
    LastReadConverted =>
        /\ phase # "aborted"
        /\ (PointerWord + LengthWord > Len(wasm_instance.memory.data)) =>
              StepFailed("OutOfBoundsMemoryAccess")
        /\ \A a \in reads : a >= 0 /\ a < Len(wasm_instance.memory.data)

\* ------------------------------------------------------------------ C13

\* C13: two run calls of the same compiled program with identical invocation
\* inputs and identical instance state return identical results: the same
\* stack contents, or the same error.
C13_Determinism ==
    phase = "returned" =>
        \A i \in 1..Len(history) :
            (/\ history[i].inputs = invocation_inputs
             /\ history[i].instance = wasm_instance
             /\ history[i].program = executable_instructions)
            => history[i].result = result

\* Two runs with the same arguments have each executed two steps or more and
\* returned the same stack, one that is not empty.
C13_Witness ==
    /\ phase = "returned"
    /\ history # <<>>
    /\ history[1].inputs = invocation_inputs
    /\ history[1].instance = wasm_instance
    /\ history[1].result = result
    /\ Len(executed) >= 2
    /\ result.kind = "Ok"
    /\ result.stack # <<>>

\* ------------------------------------------------------------------ C15

\* C15: after earlier run calls on the same compiled program, successful or
\* failed, the next run starts with an empty stack at the first step of the
\* same, unchanged step sequence, and returns what a run from an empty stack
\* returns: nothing of an earlier run's stack or progress is visible to it.
C15_FreshRunAfterRuns ==
    history # <<>> =>
        /\ \A i \in 1..Len(history) : history[i].program = executable_instructions
        /\ (phase = "running" /\ executed = <<>>) => (stack = <<>> /\ pc = 1)
        /\ phase = "returned" =>
              result \in Results(executable_instructions, 1, <<>>,
                                 invocation_inputs, wasm_instance)

\* A run has returned a stack after a run that left another stack, not an
\* empty one, behind.
C15_Witness ==
    /\ history # <<>>
    /\ phase = "returned"
    /\ Stepped
    /\ history[1].result.kind = "Ok"
    /\ history[1].result.stack # <<>>
    /\ result.kind = "Ok"
    /\ result.stack # history[1].result.stack

\* ------------------------------------------------------------------ C16

RECURSIVE StacksAt(_, _, _, _, _, _)
\* The stacks a run executed alone can have on arriving at step k, when it
\* is at step i with stack s.
StacksAt(xs, i, s, inputs, instance, k) ==
    IF i = k
    THEN {s}
    ELSE UNION {
            IF o.res = "Ok" THEN StacksAt(xs, i + 1, o.stack, inputs, instance, k)
            ELSE {} :
            o \in Exec(xs[i], Runtime(inputs, s, instance))}

\* C16: when one compiled program is shared by two run calls in progress at
\* the same time, each with its own invocation inputs and its own stack,
\* then under every interleaving of their steps each run's stack is at every
\* step the stack that run has when executed alone (no step of the other run
\* reads or changes it), and each run returns the result it returns alone.
C16_ConcurrentRunsIndependent ==
    other.phase # "idle" =>
        /\ phase = "running" =>
              stack \in StacksAt(executable_instructions, 1, <<>>,
                                 invocation_inputs, wasm_instance, pc)
        /\ other.phase = "running" =>
              other.stack \in StacksAt(executable_instructions, 1, <<>>,
                                       other.invocation_inputs,
                                       other.wasm_instance, other.pc)
        /\ phase = "returned" =>
              result \in Results(executable_instructions, 1, <<>>,
                                 invocation_inputs, wasm_instance)
        /\ other.phase = "returned" =>
              other.result \in Results(executable_instructions, 1, <<>>,
                                       other.invocation_inputs,
                                       other.wasm_instance)

\* Both run calls are in the loop past the first step, with different inputs
\* and different stacks, neither of them empty.
C16_Witness ==
    /\ phase = "running"
    /\ other.phase = "running"
    /\ pc > 1
    /\ other.pc > 1
    /\ invocation_inputs # other.invocation_inputs
    /\ stack # <<>>
    /\ other.stack # <<>>
    /\ stack # other.stack

\* ------------------------------------------------------------------ C21

\* What C21 says of every state of a run: no step is executed twice; a run
\* that returned a stack executed every step of the program, each once and
\* in order; a run that returned an error executed the steps up to the one
\* that failed, that one included, and none after it.
ExecutedOnceInOrder ==
    /\ \A i, j \in 1..Len(executed) : executed[i] = executed[j] => i = j
    /\ result.kind = "Ok" =>
          executed = [i \in 1..Len(executable_instructions) |-> i]
    /\ result.kind = "Err" =>
          /\ executed # <<>>
          /\ executed = [i \in 1..pc |-> i]
          /\ pc <= Len(executable_instructions)
          /\ Results(executable_instructions, pc, prev.stack, invocation_inputs,
                     wasm_instance) = {result}

\* C21: every run terminates (every export call returning): each step is
\* executed at most once, a successful run of an n-step program executes
\* exactly n steps, a run whose first failing step is step j executes
\* exactly the steps up to j and none after it, and a run that has started
\* comes to its end.
C21_RunTerminates ==
    /\ []ExecutedOnceInOrder
    /\ (phase = "running") ~> (phase \in {"returned", "aborted"})

\* A run of a three-step program has failed at its second step.
C21_Witness ==
    /\ phase = "returned"
    /\ result.kind = "Err"
    /\ Len(executable_instructions) = 3
    /\ executed = <<1, 2>>

\* ------------------------------------------------------------------ C22

\* C22: a Call(function_index) step always succeeds and leaves the stack
\* unchanged, for every function index and every stack.
C22_CallIsNoOp ==
    LastIs("Call") =>
        /\ StepSucceeded
        /\ stack = prev.stack
        /\ Len(calls) = prev.calls
        /\ reads = prev.reads

\* A Call of a function index other than the first has been executed on a
\* stack that is not empty.
C22_Witness ==
    /\ LastIs("Call")
    /\ LastStep.index > 0
    /\ prev.stack # <<>>
    /\ stack = prev.stack
    /\ phase = "running"

\* ------------------------------------------------------------------ C23

\* C23: no step of run changes the invocation inputs or the bytes of the
\* instance's memory: from the call of run to its return, with a stack or
\* with an error, the inputs and the instance stay what they were
\* (ArgumentGet and ReadUtf8 only read them; the exports are pure).
C23_InputsAndMemoryUnchanged ==
    [][phase = "running" =>
          /\ invocation_inputs' = invocation_inputs
          /\ wasm_instance' = wasm_instance]_vars

\* A run has returned after steps that read an input and bytes of the memory.
C23_Witness ==
    /\ phase = "returned"
    /\ \E i \in 1..Len(executed) : executable_instructions[executed[i]].step = "ArgumentGet"
    /\ LastIs("ReadUtf8")
    /\ reads # {}
    /\ invocation_inputs # <<>>
    /\ wasm_instance.memory.data = Hi
====
